---- MODULE Spec2Model ----
(***************************************************************************)
(* A model of quick_bc (src/src/main.rs, src/src/countfile.rs): whitelist  *)
(* correction of Atrandi combinatorial barcodes, the paired FASTQ          *)
(* demultiplexer and the BAM -> count table aggregation with its writer.   *)
(*                                                                         *)
(* Strings are sequences of one-character strings; the length of such a    *)
(* sequence is the byte length Rust's len() reports.  Option values are    *)
(* records tagged "Some" / "None"; a Rust panic (index out of bounds,      *)
(* unwrap/expect on a missing value) is the value Panic or the program     *)
(* position "fatal".                                                       *)
(***************************************************************************)
EXTENDS Integers, Sequences, FiniteSets, TLC

VARIABLES
    pc,                      \* position of the running subcommand
    atrandi_barcodes,        \* AtrandiBarcodes loaded from the barcode table
    cand, round, res,        \* BarcodeWhitelist::correct_to_whitelist: argument, round, result
    bc_read, bc,             \* AtrandiBarcodes::get_correct_bc_from_read: argument, result
    barcode_tuple,           \* ... its local barcode_tuple (the extraction's result)
    corrected_bc,            \* ... its local corrected_bc (None when not reached)
    f_r1, f_r2,              \* parse_to_fastq: the records the two input readers still hold
    parz_r1, parz_r2,        \* parse_to_fastq: the records written to the two outputs
    barcode_per_cell_count,  \* parse_to_fastq: the barcode histogram (HashMap)
    read_count,              \* parse_to_fastq: the loop counter
    processed,               \* history: the pairs [r1, r2] whose loop body ran to its end
    histogram_file,          \* parse_to_fastq: the histogram as written (None until written)
    header_refs,             \* bam_to_counttable: number of reference sequences in the header
    records_seen,            \* history: the alignment records counted so far, in order
    counts,                  \* bam_to_counttable: HashMap<String, HashMap<usize,i32>>
    record,                  \* bam_to_counttable: the record of the current loop iteration
    files                    \* store_counttable: the three files written (None until written)

corrVars  == <<cand, round, res>>
extVars   == <<bc_read, bc, barcode_tuple, corrected_bc>>
demuxVars == <<f_r1, f_r2, parz_r1, parz_r2, barcode_per_cell_count, read_count,
               processed, histogram_file>>
countVars == <<header_refs, records_seen, counts, record, files>>
vars == <<pc, atrandi_barcodes, corrVars, extVars, demuxVars, countVars>>

(***************************************************************************)
(* Bounds of the model and constants of the program.                       *)
(***************************************************************************)
MaxRows  == 2      \* rows of a barcode table drawn for the correction checks
MaxBcLen == 9      \* longest barcode (and candidate) drawn for the correction checks
MaxMismatch == 2   \* damaged bases per window of a drawn read
MaxTail  == 1      \* bases of a drawn read after its last window
MaxPairs == 2      \* records drawn for each of the two input FASTQ streams
MaxRefs  == 1      \* reference sequences in a drawn BAM header
MaxRecords == 3    \* alignment records counted in one run

WindowLen     == 8     \* bases of one barcode window (main.rs:164)
ExactScore    == 8     \* score of a verbatim whitelist hit (main.rs:58)
MinScore      == 6     \* per-round acceptance cutoff (main.rs:62)
NoLength      == 666   \* bc_length before any table row is read (main.rs:105)
NumRounds     == 4     \* whitelists of a scheme (main.rs:104)
Offset4       == 0     \* start of the window of barcode_4 (main.rs:164)
Offset3       == 12    \* start of the window of barcode_3 (main.rs:165)
Offset2       == 24    \* start of the window of barcode_2 (main.rs:166)
Offset1       == 36    \* start of the window of barcode_1 (main.rs:167)
QualityPerRound == 7   \* the global quality constraint is 7*4 (main.rs:151)
DoneEarlyCount == 50000000  \* read_count at which the loop breaks (main.rs:281)

(***************************************************************************)
(* Values.                                                                 *)
(***************************************************************************)
None    == [tag |-> "None"]
Panic   == [tag |-> "Panic"]
Some(v) == [tag |-> "Some", val |-> v]
Invalid == [tag |-> "Invalid"]

Rep(x, n) == [i \in 1..n |-> x]

Range(s) == {s[i] : i \in 1..Len(s)}

\* all sequences over S of length 0..n
SeqsUpTo(S, n) == UNION {[1..k -> S] : k \in 0..n}

(***************************************************************************)
(* BarcodeWhitelist (main.rs:25-74).                                       *)
(***************************************************************************)

\* num_similar_elements(a, b): the count of i < a.len() with a[i] == b[i];
\* b[i] is out of bounds (a panic) as soon as a is longer than b: -1 here.
RECURSIVE similar_from(_, _, _, _)
similar_from(a, b, i, count) ==
    IF i > Len(a) THEN count
    ELSE IF i > Len(b) THEN -1
    ELSE similar_from(a, b, i + 1, IF a[i] = b[i] THEN count + 1 ELSE count)

num_similar_elements(a, b) == similar_from(a, b, 1, 0)

\* the loop of closest_bc_basewise over j in 1..list.len() (0-based), carrying
\* (best_bc, best_bc_score); a panic of num_similar_elements propagates.
RECURSIVE closest_from(_, _, _, _, _)
closest_from(list, bc_to_match, j, best_bc, best_bc_score) ==
    IF j > Len(list) THEN Some(<<best_bc, best_bc_score>>)
    ELSE LET score == num_similar_elements(bc_to_match, list[j])
         IN  IF score = -1 THEN Panic
             ELSE IF score > best_bc_score
                  THEN closest_from(list, bc_to_match, j + 1, list[j], score)
                  ELSE closest_from(list, bc_to_match, j + 1, best_bc, best_bc_score)

closest_bc_basewise_ties_last(wl, bc_to_match) ==
    IF Len(wl.list) = 0 THEN Panic
    ELSE LET RECURSIVE last_from(_, _, _)
             last_from(j, best_bc, best) ==
                 IF j > Len(wl.list) THEN Some(<<best_bc, best>>)
                 ELSE LET score == num_similar_elements(bc_to_match, wl.list[j])
                      IN  IF score = -1 THEN Panic
                          ELSE IF score >= best
                               THEN last_from(j + 1, wl.list[j], score)
                               ELSE last_from(j + 1, best_bc, best)
             first == num_similar_elements(bc_to_match, wl.list[1])
         IN  IF first = -1 THEN Panic ELSE last_from(2, wl.list[1], first)

\* closest_bc_basewise: list[0] panics on an empty list.
closest_bc_basewise(wl, bc_to_match) ==
    IF Len(wl.list) = 0 THEN Panic
    ELSE LET first == num_similar_elements(bc_to_match, wl.list[1])
         IN  IF first = -1 THEN Panic
             ELSE closest_from(wl.list, bc_to_match, 2, wl.list[1], first)

correct_to_whitelist(wl, bc_to_match) ==
    IF Len(bc_to_match) = 0 THEN None
    ELSE IF bc_to_match \in wl.set THEN Some(<<bc_to_match, ExactScore>>)
    ELSE IF wl.bc_length = Len(bc_to_match)
         THEN LET m == closest_bc_basewise(wl, bc_to_match)
              IN  IF m = Panic THEN Panic
                  ELSE IF m.val[2] >= MinScore THEN m ELSE None
    ELSE None

(***************************************************************************)
(* AtrandiBarcodes::read_atrandi_barcodes (main.rs:100-123).  A table is   *)
(* the sequence of its rows <<pos, bc>> (the well label is not used).      *)
(***************************************************************************)

\* the loop over the rows: [wells, bc_length], or Panic when pos - 1 is not
\* an index of bcs_for_well (pos = 0 underflows, pos > 4 is out of bounds).
RECURSIVE read_rows(_, _, _, _)
read_rows(rows, k, bcs_for_well, bc_length) ==
    IF k > Len(rows) THEN [wells |-> bcs_for_well, bc_length |-> bc_length]
    ELSE LET pos == rows[k][1]
             b   == rows[k][2]
         IN  IF pos < 1 \/ pos > NumRounds THEN Panic
             ELSE read_rows(rows, k + 1,
                            [bcs_for_well EXCEPT ![pos] = Append(@, b)], Len(b))

read_atrandi_barcodes(rows) ==
    LET r == read_rows(rows, 1, [p \in 1..NumRounds |-> <<>>], NoLength)
    IN  IF r = Panic THEN Panic
        ELSE [rounds |-> [p \in 1..NumRounds |->
                 [list      |-> r.wells[p],
                  set       |-> Range(r.wells[p]),
                  bc_length |-> r.bc_length]]]

(***************************************************************************)
(* Fixed-offset extraction and the scheme's correction (main.rs:127-172).  *)
(* A &str is valid UTF-8: besides one-byte characters it may hold the      *)
(* three bytes "r1","r2","r3" of U+FFFD, the character from_utf8_lossy     *)
(* puts in the place of an invalid byte.                                   *)
(***************************************************************************)
Continuation == {"r2", "r3"}

\* str::is_char_boundary(index), index 0-based
is_char_boundary(s, index) ==
    \/ index = 0
    \/ index = Len(s)
    \/ index < Len(s) /\ s[index + 1] \notin Continuation

\* &s[from..to]: a panic unless from <= to <= len and both are char boundaries
str_slice(s, from, to) ==
    IF from <= to /\ to <= Len(s) /\ is_char_boundary(s, from) /\ is_char_boundary(s, to)
    THEN Some(SubSeq(s, from + 1, to))
    ELSE Panic

extract_bc_optimistic_atrandi(read) ==
    IF Len(read) > Offset1 + WindowLen
    THEN LET barcode_4 == str_slice(read, Offset4, Offset4 + WindowLen)
             barcode_3 == str_slice(read, Offset3, Offset3 + WindowLen)
             barcode_2 == str_slice(read, Offset2, Offset2 + WindowLen)
             barcode_1 == str_slice(read, Offset1, Offset1 + WindowLen)
         IN  IF Panic \in {barcode_4, barcode_3, barcode_2, barcode_1} THEN Panic
             ELSE Some(<<barcode_1.val, barcode_2.val, barcode_3.val, barcode_4.val>>)
    ELSE None

\* the tuple of the four correct_to_whitelist(..)? calls, evaluated in order:
\* the first call that is not Some ends the function with None (or panics).
RECURSIVE correct_rounds(_, _, _, _)
correct_rounds(scheme, t, r, acc) ==
    IF r > NumRounds THEN Some(acc)
    ELSE LET c == correct_to_whitelist(scheme.rounds[r], t[r])
         IN  IF c.tag = "Some" THEN correct_rounds(scheme, t, r + 1, Append(acc, c.val))
             ELSE c

\* the global quality constraint on the corrected tuple (main.rs:149-155)
quality_gate(cb) ==
    LET total_m == cb[1][2] + cb[2][2] + cb[3][2] + cb[4][2]
    IN  IF total_m > QualityPerRound * 4
        THEN Some(<<cb[1][1], cb[2][1], cb[3][1], cb[4][1]>>)
        ELSE None

\* get_correct_bc_from_read from main.rs:136 on, given the extracted tuple t
\* and the outcome cb of the four corrections
gate_corrected(t, cb) ==
    IF cb.tag # "Some"
    THEN [barcode_tuple |-> t, corrected_bc |-> None, ret |-> cb]
    ELSE [barcode_tuple |-> t, corrected_bc |-> cb, ret |-> quality_gate(cb.val)]

\* get_correct_bc_from_read from main.rs:133 on, given the extraction's outcome t
correct_extracted(scheme, t) ==
    IF t.tag # "Some"
    THEN [barcode_tuple |-> t, corrected_bc |-> None, ret |-> t]
    ELSE gate_corrected(t, correct_rounds(scheme, t.val, 1, <<>>))

\* get_correct_bc_from_read: its two locals and what it returns
get_correct_bc_from_read(scheme, read) ==
    correct_extracted(scheme, extract_bc_optimistic_atrandi(read))

(***************************************************************************)
(* Correction checks: a barcode table of at most MaxRows rows is loaded,   *)
(* then correct_to_whitelist is applied to candidates.                     *)
(***************************************************************************)
Letters == {"A", "C"}

\* barcodes a drawn table may hold: 8-base ones and MaxBcLen-base ones
Pool == {Rep("A", WindowLen), Rep("A", WindowLen - 2) \o Rep("C", 2), Rep("C", WindowLen),
         Rep("A", MaxBcLen), Rep("A", MaxBcLen - 2) \o Rep("C", 2)}

\* the rounds the drawn tables fill and the checks query
CorrRounds == {1, 2}

CorrTables == SeqsUpTo(CorrRounds \X Pool, MaxRows)

\* candidates x^i y^(L-i) of every length L up to MaxBcLen
Cands == {Rep(x, i) \o Rep(y, L - i) : <<x, y, L, i>> \in
             {q \in Letters \X Letters \X (0..MaxBcLen) \X (0..MaxBcLen) : q[4] <= q[3]}}

IdleDemux ==
    /\ f_r1 = <<>> /\ f_r2 = <<>> /\ parz_r1 = <<>> /\ parz_r2 = <<>>
    /\ barcode_per_cell_count = <<>> /\ read_count = 0
    /\ processed = <<>> /\ histogram_file = None

IdleCount ==
    /\ header_refs = 0 /\ records_seen = <<>> /\ counts = <<>> /\ files = None
    /\ record = None

IdleCorr == cand = <<>> /\ round = 1 /\ res = None

IdleExt == bc_read = <<>> /\ bc = None /\ barcode_tuple = None /\ corrected_bc = None

InitCorrect ==
    /\ pc = "loaded"
    /\ \E rows \in CorrTables : atrandi_barcodes = read_atrandi_barcodes(rows)
    /\ IdleCorr /\ IdleExt /\ IdleDemux /\ IdleCount

\* one call self.rounds[round].correct_to_whitelist(&cand)
Correct ==
    /\ pc = "loaded"
    /\ \E r \in CorrRounds, c \in Cands :
         /\ round' = r
         /\ cand' = c
         /\ res' = correct_to_whitelist(atrandi_barcodes.rounds[r], c)
    /\ pc' = "corrected"
    /\ UNCHANGED <<atrandi_barcodes, extVars, demuxVars, countVars>>

NextCorrect == Correct

SpecCorrect == InitCorrect /\ [][NextCorrect]_vars

----
\* the whitelist the last correction queried
QueriedWl == atrandi_barcodes.rounds[round]

\* the number of positions where c and e hold the same byte
Score(c, e) == Cardinality({i \in 1..Len(c) : c[i] = e[i]})

\* every entry of wl has the length wl.bc_length, and there is an entry
UniformWl(wl) ==
    /\ Len(wl.list) > 0
    /\ \A j \in 1..Len(wl.list) : Len(wl.list[j]) = wl.bc_length

C1_Case ==
    /\ pc = "corrected"
    /\ UniformWl(QueriedWl)
    /\ Len(cand) = QueriedWl.bc_length
    /\ cand # <<>>
    /\ cand \notin QueriedWl.set

\* C1: for a whitelist whose entries all have length bc_length and a non-empty
\* candidate of that length that is not an entry, correct returns (e, s) with s
\* the maximum over the entries of the number of agreeing positions and e the
\* first entry in list order that attains s, if s >= 6, and fails otherwise.
C1_FirstBestAboveCutoff ==
    C1_Case =>
        LET list == QueriedWl.list
            s == CHOOSE m \in 0..Len(cand) :
                    /\ \E j \in 1..Len(list) : Score(cand, list[j]) = m
                    /\ \A j \in 1..Len(list) : Score(cand, list[j]) <= m
            e == list[CHOOSE j \in 1..Len(list) :
                    /\ Score(cand, list[j]) = s
                    /\ \A k \in 1..(j - 1) : Score(cand, list[k]) < s]
        IN  res = IF s >= 6 THEN Some(<<e, s>>) ELSE None

\* the example of the claim: ["AAAAAAAA","CCCCCCCC"], "AAAAAAAC" -> ("AAAAAAAA", 7)
C1_Witness ==
    /\ C1_Case
    /\ QueriedWl.list = <<Rep("A", 8), Rep("C", 8)>>
    /\ cand = Rep("A", 7) \o <<"C">>
    /\ res = Some(<<Rep("A", 8), 7>>)

\* a tie between two entries is decided for the first one
C1_TieWitness ==
    /\ C1_Case
    /\ QueriedWl.list = <<Rep("A", 6) \o Rep("C", 2), Rep("A", 8)>>
    /\ cand = Rep("A", 7) \o <<"C">>
    /\ res = Some(<<Rep("A", 6) \o Rep("C", 2), 7>>)

\* a best score below the cutoff fails
C1_RejectWitness ==
    /\ C1_Case
    /\ cand = Rep("A", 5) \o Rep("C", 3)
    /\ QueriedWl.list = <<Rep("A", 8)>>
    /\ res = None

\* C2 (as claimed): a barcode present verbatim in the whitelist is returned
\* with the score bc_length, whatever that length is.
C2_ExactHitScoresBcLength ==
    (pc = "corrected" /\ cand \in QueriedWl.set)
        => res = Some(<<cand, QueriedWl.bc_length>>)

----
(***************************************************************************)
(* Extraction checks: a table is loaded (full, without a round, or with   *)
(* entries of two lengths), then get_correct_bc_from_read is applied to    *)
(* reads assembled from whitelist entries (some bases damaged), spacers    *)
(* and a tail, and to short reads.                                         *)
(***************************************************************************)
Half(x, y) == Rep(x, 4) \o Rep(y, 4)

TableDistinct ==
    << <<1, Rep("A", 8)>>, <<1, Rep("C", 8)>>, <<2, Rep("G", 8)>>, <<2, Rep("T", 8)>>,
       <<3, Half("A", "C")>>, <<3, Half("C", "A")>>,
       <<4, Half("G", "T")>>, <<4, Half("T", "G")>> >>

TableNear ==
    << <<1, Rep("A", 8)>>, <<1, Rep("A", 6) \o Rep("C", 2)>>, <<2, Rep("G", 8)>>,
       <<3, Half("A", "C")>>, <<4, Rep("T", 8)>> >>

\* a table without a row for round 4: that round's whitelist has no entries
TableNoRound4 ==
    << <<1, Rep("A", 8)>>, <<2, Rep("G", 8)>>, <<3, Half("A", "C")>> >>

\* a table whose round 1 holds a 7-base entry before its 8-base entry
TableRagged ==
    << <<1, Rep("A", 7)>>, <<1, Rep("C", 8)>>, <<2, Rep("G", 8)>>,
       <<3, Half("A", "C")>>, <<4, Rep("T", 8)>> >>

ExtTables == {TableDistinct, TableNear, TableNoRound4, TableRagged}

\* e with its first k bases replaced by a base no whitelist holds
Damage(e, k) == [i \in 1..Len(e) |-> IF i <= k THEN "N" ELSE e[i]]

\* the windows drawn for round r: its entries with 0..MaxMismatch bases damaged
Windows(scheme, r) == {Damage(e, k) : e \in scheme.rounds[r].set, k \in 0..MaxMismatch}

\* 4-byte spacers: four bases, or a base and one U+FFFD
Spacers == {Rep("N", 4), <<"N", "r1", "r2", "r3">>}

Build(w3, w2, w1, w0, sp, tail) == w3 \o sp \o w2 \o sp \o w1 \o sp \o w0 \o tail

BuiltReads(scheme) ==
    {Build(q[4], q[3], q[2], q[1], q[5], Rep("T", q[6])) :
        q \in Windows(scheme, 1) \X Windows(scheme, 2) \X Windows(scheme, 3)
              \X Windows(scheme, 4) \X Spacers \X (0..MaxTail)}

\* the prefixes, shorter than the four windows, of one assembled read
ShortReads == {SubSeq(Build(Rep("G", 8), Rep("A", 8), Rep("G", 8), Rep("A", 8),
                            Rep("N", 4), <<>>), 1, n) : n \in 0..(Offset1 + WindowLen - 1)}

\* a read whose byte 8 lies inside a character
StraddleReads == {Rep("A", 7) \o <<"r1", "r2", "r3">> \o Rep("A", 36)}

\* 45-base reads drawn whatever the table holds: round 1's window is "AAAAAAAA"
\* or "AAAAAAAC"
PlainReads ==
    {Build(Rep("T", 8), Half("A", "C"), Rep("G", 8), w0, Rep("N", 4), <<"T">>) :
        w0 \in {Rep("A", 8), Rep("A", 7) \o <<"C">>}}

ExtReads(scheme) == BuiltReads(scheme) \cup ShortReads \cup StraddleReads \cup PlainReads

InitExtract ==
    /\ pc = "loaded"
    /\ \E rows \in ExtTables : atrandi_barcodes = read_atrandi_barcodes(rows)
    /\ IdleCorr /\ IdleExt /\ IdleDemux /\ IdleCount

\* one call atrandi_barcodes.get_correct_bc_from_read(&bc_read)
Extract ==
    /\ pc = "loaded"
    /\ \E read \in ExtReads(atrandi_barcodes) :
         \E g \in {get_correct_bc_from_read(atrandi_barcodes, read)} :
             /\ bc_read' = read
             /\ barcode_tuple' = g.barcode_tuple
             /\ corrected_bc' = g.corrected_bc
             /\ bc' = g.ret
    /\ pc' = "extracted"
    /\ UNCHANGED <<atrandi_barcodes, corrVars, demuxVars, countVars>>

NextExtract == Extract

SpecExtract == InitExtract /\ [][NextExtract]_vars

----
\* a read made of bases only (one byte per character)
BasesOnly(read) == \A i \in 1..Len(read) : read[i] \notin {"r1", "r2", "r3"}

\* the 8 bytes of read from byte offset off (0-based)
WindowAt(read, off) == [i \in 1..8 |-> read[off + i]]

\* C3 (as claimed): a read of 44 or more bases whose windows at offsets 0, 12,
\* 24, 36 are entries w3, w2, w1, w0 of rounds 3, 2, 1, 0 is corrected to
\* exactly (w0, w1, w2, w3).
C3_RoundTripFrom44 ==
    ( /\ pc = "extracted"
      /\ BasesOnly(bc_read)
      /\ Len(bc_read) >= 44
      /\ WindowAt(bc_read, 36) \in atrandi_barcodes.rounds[1].set
      /\ WindowAt(bc_read, 24) \in atrandi_barcodes.rounds[2].set
      /\ WindowAt(bc_read, 12) \in atrandi_barcodes.rounds[3].set
      /\ WindowAt(bc_read, 0) \in atrandi_barcodes.rounds[4].set )
    => bc = Some(<<WindowAt(bc_read, 36), WindowAt(bc_read, 24),
                   WindowAt(bc_read, 12), WindowAt(bc_read, 0)>>)

\* C4 (as claimed): a read of bases yields no extraction iff it is shorter
\* than 44; a read of 44 or more yields the windows at [0,8), [12,20), [24,32),
\* [36,44), whatever the spacers hold.
C4_ExtractIffAtLeast44 ==
    (pc = "extracted" /\ BasesOnly(bc_read))
    => /\ (barcode_tuple = None) <=> (Len(bc_read) < 44)
       /\ Len(bc_read) >= 44 =>
            barcode_tuple = Some(<<WindowAt(bc_read, 36), WindowAt(bc_read, 24),
                                   WindowAt(bc_read, 12), WindowAt(bc_read, 0)>>)

\* C5 (as claimed): when the four rounds correct successfully the read is
\* rejected exactly when the sum of the four scores is below 4*(bc_length-1),
\* and an accepted read returns the four corrected strings.
C5_GateRejectsBelowOnly ==
    (pc = "extracted" /\ corrected_bc # None)
    => LET cb == corrected_bc.val
           sum == cb[1][2] + cb[2][2] + cb[3][2] + cb[4][2]
           bc_length == atrandi_barcodes.rounds[1].bc_length
       IN  /\ (bc = None) <=> (sum < 4 * (bc_length - 1))
           /\ bc # None => bc = Some(<<cb[1][1], cb[2][1], cb[3][1], cb[4][1]>>)

----
(***************************************************************************)
(* parse_to_fastq (main.rs:246-365).  A FASTQ record is [id, seq, qual],   *)
(* three byte strings; the reader hands out records whose seq and qual     *)
(* have the same length.  The byte "X" is a byte that is not valid UTF-8.  *)
(***************************************************************************)

\* String::from_utf8_lossy: every invalid byte becomes the 3 bytes of U+FFFD
RECURSIVE from_utf8_lossy(_)
from_utf8_lossy(bytes) ==
    IF bytes = <<>> THEN <<>>
    ELSE (IF Head(bytes) = "X" THEN <<"r1", "r2", "r3">> ELSE <<Head(bytes)>>)
         \o from_utf8_lossy(Tail(bytes))

\* record.id(): Err (and unwrap panics) when the id is not valid UTF-8
id_is_utf8(id) == \A i \in 1..Len(id) : id[i] # "X"

\* format!("{}.{}.{}.{}", bc.0, bc.1, bc.2, bc.3)
concat_bc_of(b) == b[1] \o <<".">> \o b[2] \o <<".">> \o b[3] \o <<".">> \o b[4]

\* format!("{}_{}", &concat_bc, id)
new_name(concat_bc, id) == concat_bc \o <<"_">> \o id

\* HashMap::insert
map_insert(m, k, v) == [x \in DOMAIN m \cup {k} |-> IF x = k THEN v ELSE m[x]]

count_barcode_overwrite(hist, concat_bc) == map_insert(hist, concat_bc, 1)

\* the match on barcode_per_cell_count.get(&concat_bc) (main.rs:301-308)
count_barcode(hist, concat_bc) ==
    IF concat_bc \in DOMAIN hist
    THEN map_insert(hist, concat_bc, hist[concat_bc] + 1)
    ELSE map_insert(hist, concat_bc, 1)

\* &bytes[from..to] on a byte slice: a panic unless from <= to <= len
byte_slice(bytes, from, to) ==
    IF from <= to /\ to <= Len(bytes) THEN Some(SubSeq(bytes, from + 1, to)) ELSE Panic

trim_r2_keep_head(seq, qual) ==
    LET to == Len(seq)
        n  == IF Offset1 + WindowLen < to THEN to - (Offset1 + WindowLen) ELSE 0
    IN  [seq |-> byte_slice(seq, 0, n), qual |-> byte_slice(qual, 0, n)]

\* main.rs:328-332: from = min(36+8, seq.len()); seq[from..to], qual[from..to]
trim_r2(seq, qual) ==
    LET to    == Len(seq)
        from0 == Offset1 + WindowLen
        from  == IF from0 < to THEN from0 ELSE to
    IN  [seq |-> byte_slice(seq, from, to), qual |-> byte_slice(qual, from, to)]

\* the outcome of one loop body: the new histogram, the records written to the
\* two outputs, whether the body panicked, and the barcode found
Outcome(h, o1, o2, f, found) == [hist |-> h, out1 |-> o1, out2 |-> o2, fatal |-> f, bc |-> found]

\* main.rs:317-338: the two writes, given the counted histogram hist2, the
\* record w1 for the first output and the trimmed second read t
write_pair(found, hist2, concat_bc, w1, t, record_r1, record_r2) ==
    IF ~id_is_utf8(record_r1.id) THEN Outcome(hist2, <<>>, <<>>, TRUE, found)
    ELSE IF ~id_is_utf8(record_r2.id) THEN Outcome(hist2, <<w1>>, <<>>, TRUE, found)
    ELSE IF t.seq = Panic \/ t.qual = Panic THEN Outcome(hist2, <<w1>>, <<>>, TRUE, found)
    ELSE Outcome(hist2, <<w1>>,
                 <<[name |-> new_name(concat_bc, record_r2.id),
                    seq |-> t.seq.val, qual |-> t.qual.val]>>, FALSE, found)

\* main.rs:296-341: the Some(bc) arm, given concat_bc
emit_pair(found, concat_bc, hist, record_r1, record_r2) ==
    write_pair(found, count_barcode(hist, concat_bc), concat_bc,
               [name |-> new_name(concat_bc, record_r1.id),
                seq |-> record_r1.seq, qual |-> record_r1.qual],
               trim_r2(record_r2.seq, record_r2.qual), record_r1, record_r2)

\* main.rs:295-345: the match on the barcode found
match_bc(found, hist, record_r1, record_r2) ==
    IF found = Panic THEN Outcome(hist, <<>>, <<>>, TRUE, found)
    ELSE IF found = None THEN Outcome(hist, <<>>, <<>>, FALSE, None)
    ELSE emit_pair(found, concat_bc_of(found.val), hist, record_r1, record_r2)

\* the loop body from main.rs:292 on, for one pair of records
handle_pair(scheme, hist, record_r1, record_r2) ==
    match_bc(get_correct_bc_from_read(scheme, from_utf8_lossy(record_r2.seq)).ret,
             hist, record_r1, record_r2)

(***************************************************************************)
(* The inputs of a demultiplexing run.                                     *)
(***************************************************************************)
IdA   == <<"a">>
IdB   == <<"b">>
BadId == <<"X">>

\* a quality string for a sequence: "#" under the barcode part, "F" after it
QualFor(seq) == [i \in 1..Len(seq) |-> IF i <= 44 THEN "#" ELSE "F"]

GoodRead1 == Build(Half("G", "T"), Half("A", "C"), Rep("G", 8), Rep("A", 8),
                   Rep("N", 4), <<"T", "C">>)
GoodRead2 == Build(Half("G", "T"), Half("A", "C"), Rep("G", 8), Rep("C", 8),
                   Rep("N", 4), <<"T", "C">>)
\* too short to hold the four windows
ShortRead == Rep("A", 10)
\* 39 bytes that decode to 45: every spacer holds one invalid byte
LossyRead == Build(Half("G", "T"), Half("A", "C"), Rep("G", 8), Rep("A", 8),
                   <<"X", "N">>, <<"T">>)

R1Records == {[id |-> i, seq |-> <<"G", "T">>, qual |-> <<"I", "J">>] : i \in {IdA, IdB, BadId}}

R2Records == {[id |-> i, seq |-> q, qual |-> QualFor(q)] :
                 i \in {IdA, BadId}, q \in {GoodRead1, GoodRead2, ShortRead, LossyRead}}

\* The run starts with read_count = 0, or is taken up at read_count =
\* DoneEarlyCount - 2 after pairs that were all dropped (nothing written,
\* nothing counted); f_r1, f_r2 and processed then hold what follows.
Init ==
    /\ pc = "processing"
    /\ atrandi_barcodes = read_atrandi_barcodes(TableDistinct)
    /\ f_r1 \in SeqsUpTo(R1Records, MaxPairs)
    /\ f_r2 \in SeqsUpTo(R2Records, MaxPairs)
    /\ parz_r1 = <<>> /\ parz_r2 = <<>>
    /\ barcode_per_cell_count = <<>>
    /\ read_count \in {0, DoneEarlyCount - 2}
    /\ processed = <<>>
    /\ histogram_file = None
    /\ IdleCorr /\ IdleExt /\ IdleCount

\* main.rs:348-363: both outputs are finished and the histogram is written
Finalized ==
    /\ pc' = "finalized"
    /\ histogram_file' = Some(barcode_per_cell_count)

\* f_r1.next() is None: the loop ends and the run completes
Exhausted ==
    /\ pc = "processing"
    /\ f_r1 = <<>>
    /\ Finalized
    /\ UNCHANGED <<atrandi_barcodes, corrVars, extVars, countVars, f_r1, f_r2,
                   parz_r1, parz_r2, barcode_per_cell_count, read_count, processed>>

\* main.rs:281-284: the record of R1 that brings read_count to 50000000 is
\* taken and the loop is left; the run completes
DoneEarly ==
    /\ pc = "processing"
    /\ f_r1 # <<>>
    /\ read_count + 1 = DoneEarlyCount
    /\ f_r1' = Tail(f_r1)
    /\ read_count' = read_count + 1
    /\ Finalized
    /\ UNCHANGED <<atrandi_barcodes, corrVars, extVars, countVars, f_r2,
                   parz_r1, parz_r2, barcode_per_cell_count, processed>>

\* main.rs:287: f_r2.next().expect("No r2") with R2 exhausted
NoR2 ==
    /\ pc = "processing"
    /\ f_r1 # <<>>
    /\ read_count + 1 # DoneEarlyCount
    /\ f_r2 = <<>>
    /\ f_r1' = Tail(f_r1)
    /\ read_count' = read_count + 1
    /\ pc' = "fatal"
    /\ UNCHANGED <<atrandi_barcodes, corrVars, extVars, countVars, f_r2,
                   parz_r1, parz_r2, barcode_per_cell_count, processed, histogram_file>>

\* one iteration of the loop with a record from each stream
HandlePair ==
    /\ pc = "processing"
    /\ f_r1 # <<>>
    /\ read_count + 1 # DoneEarlyCount
    /\ f_r2 # <<>>
    /\ f_r1' = Tail(f_r1)
    /\ f_r2' = Tail(f_r2)
    /\ read_count' = read_count + 1
    /\ \E h \in {handle_pair(atrandi_barcodes, barcode_per_cell_count, Head(f_r1), Head(f_r2))} :
           /\ barcode_per_cell_count' = h.hist
           /\ parz_r1' = parz_r1 \o h.out1
           /\ parz_r2' = parz_r2 \o h.out2
           /\ pc' = IF h.fatal THEN "fatal" ELSE "processing"
           /\ processed' = IF h.fatal THEN processed
                           ELSE Append(processed, [r1 |-> Head(f_r1), r2 |-> Head(f_r2)])
    /\ UNCHANGED <<atrandi_barcodes, corrVars, extVars, countVars, histogram_file>>

Next == Exhausted \/ DoneEarly \/ NoR2 \/ HandlePair

Spec == Init /\ [][Next]_vars

----
\* the barcode the second read of a handled pair corrects to (None: dropped)
CorrectionOf(e) == get_correct_bc_from_read(atrandi_barcodes, from_utf8_lossy(e.r2.seq)).ret

\* the handled pairs that passed correction, in input order
Passed == SelectSeq(processed, LAMBDA e : CorrectionOf(e) # None)

\* the four round strings joined by dots
Dotted(b) == b[1] \o <<".">> \o b[2] \o <<".">> \o b[3] \o <<".">> \o b[4]

\* the sum of the values of a finite map
RECURSIVE SumOver(_, _)
SumOver(m, keys) ==
    IF keys = {} THEN 0
    ELSE LET k == CHOOSE x \in keys : TRUE IN m[k] + SumOver(m, keys \ {k})

\* the run has not panicked (a panic ends the run inside a loop body; what the
\* body did before it is then all that was done for that pair)
Running == pc \in {"processing", "finalized"}

C6_Counts ==
    Running =>
        /\ DOMAIN barcode_per_cell_count
               = {Dotted(CorrectionOf(processed[k]).val) :
                     k \in {j \in 1..Len(processed) : CorrectionOf(processed[j]) # None}}
        /\ \A key \in DOMAIN barcode_per_cell_count :
               barcode_per_cell_count[key]
                   = Cardinality({k \in 1..Len(processed) :
                         /\ CorrectionOf(processed[k]) # None
                         /\ Dotted(CorrectionOf(processed[k]).val) = key})
        /\ SumOver(barcode_per_cell_count, DOMAIN barcode_per_cell_count) = Len(Passed)
        /\ Len(parz_r1) = Len(Passed)
        /\ Len(parz_r2) = Len(Passed)

\* a step that handles a pair whose correction fails
C6_DropStep ==
    /\ Len(processed') = Len(processed) + 1
    /\ CorrectionOf(processed'[Len(processed')]) = None

\* C6: while the run has not ended fatally, the histogram holds for each
\* barcode the number of handled pairs whose second read corrected to it, its
\* counts sum to the number of pairs that passed correction, that many records
\* are in each output, and a pair whose correction fails changes neither the
\* histogram nor an output.
C6_HistogramMatchesPassedPairs ==
    /\ []C6_Counts
    /\ [][C6_DropStep => UNCHANGED <<barcode_per_cell_count, parz_r1, parz_r2>>]_vars

\* one pair dropped and one pair counted: the counts sum to 1, not to 2
C6_Witness ==
    /\ pc = "finalized"
    /\ Len(processed) = 2
    /\ CorrectionOf(processed[1]) = None
    /\ barcode_per_cell_count
         = (Dotted(<<Rep("A", 8), Rep("G", 8), Half("A", "C"), Half("G", "T")>>) :> 1)
    /\ Len(parz_r1) = 1 /\ Len(parz_r2) = 1
    /\ histogram_file = Some(barcode_per_cell_count)

\* C7 (as claimed): a run completes normally only if neither stream ran out
\* while the other still held a record (the break at read_count = 50000000
\* leaves both streams unread and is no desynchronization).
C7_DesyncNeverCompletes ==
    (pc = "finalized" /\ read_count # DoneEarlyCount) => (f_r1 = <<>> /\ f_r2 = <<>>)

\* s without its first n bytes
DropFirst(s, n) == [i \in 1..(Len(s) - n) |-> s[n + i]]

MinOf(a, b) == IF a < b THEN a ELSE b

\* what the claim says is written for a passed pair e
Emitted1(e) ==
    [name |-> Dotted(CorrectionOf(e).val) \o <<"_">> \o e.r1.id,
     seq |-> e.r1.seq, qual |-> e.r1.qual]

Emitted2(e) ==
    [name |-> Dotted(CorrectionOf(e).val) \o <<"_">> \o e.r2.id,
     seq  |-> DropFirst(e.r2.seq, MinOf(44, Len(e.r2.seq))),
     qual |-> DropFirst(e.r2.qual, MinOf(44, Len(e.r2.qual)))]

C8_ClampWitness ==
    /\ Running
    /\ Len(Passed) >= 1
    /\ Len(Passed[1].r2.seq) < 44
    /\ parz_r2[1].seq = <<>> /\ parz_r2[1].qual = <<>>

----
(***************************************************************************)
(* bam_to_counttable (main.rs:376-442) and store_counttable                *)
(* (countfile.rs:9-67).  An alignment record is [name, refid]: name is     *)
(* None or Some(bytes), refid is None (unaligned), Some(i) or Invalid      *)
(* (reference_sequence_id() is Some(Err)).                                 *)
(***************************************************************************)

\* name_of_features for a header of n references: their names, then "*"
name_of_features(n) == [i \in 1..(n + 1) |-> IF i <= n THEN <<"chr", i>> ELSE <<"*">>]

\* name.split_once('_'): Some((before, after)) at the first underscore
RECURSIVE split_from(_, _)
split_from(name, i) ==
    IF i > Len(name) THEN None
    ELSE IF name[i] = "_"
         THEN Some(<<SubSeq(name, 1, i - 1), SubSeq(name, i + 1, Len(name))>>)
    ELSE split_from(name, i + 1)

split_once_or_empty(name) ==
    IF split_from(name, 1) = None THEN Some(<<<<>>, name>>) ELSE split_from(name, 1)

split_once(name) == split_from(name, 1)

\* the match on record.reference_sequence_id() (main.rs:408-416)
feature_of(refid, id_noname) == IF refid = None THEN id_noname ELSE refid.val

update_count_accumulate(table, b, feature) ==
    IF b \in DOMAIN table
    THEN [table EXCEPT ![b] = map_insert(@, feature,
                                 IF feature \in DOMAIN @ THEN @[feature] + 1 ELSE 1)]
    ELSE map_insert(table, b, map_insert(<<>>, feature, 1))

\* barcode_per_cell_count.entry(bc).and_modify(..).or_insert(..) (main.rs:419-427)
update_count(table, b, feature) ==
    IF b \in DOMAIN table
    THEN [table EXCEPT ![b] = map_insert(@, feature, 1)]
    ELSE map_insert(table, b, map_insert(<<>>, feature, 1))

\* the body of the loop over reader.records() (main.rs:399-429): the table
\* after the record, or Panic (no name, no underscore, invalid reference id)
count_record(table, rec, id_noname) ==
    IF rec.name = None THEN Panic
    ELSE IF split_once(rec.name.val) = None THEN Panic
    ELSE IF rec.refid = Invalid THEN Panic
    ELSE Some(update_count(table, split_once(rec.name.val).val[1],
                           feature_of(rec.refid, id_noname)))

\* the orders in which a HashMap may hand out the elements of S
Perms(S) == {p \in [1..Cardinality(S) -> S] : \A i, j \in 1..Cardinality(S) : p[i] = p[j] => i = j}

mtx_line_zero_based(cellid, feature, cnt) == <<cellid, feature + 1, cnt>>

\* format!["{}\t{}\t{}\n", cellid+1, bc+1, cnt] (countfile.rs:46)
mtx_line(cellid, feature, cnt) == <<cellid + 1, feature + 1, cnt>>

\* countfile.rs:42-49: the data rows matrix.mtx may hold, for the cells
\* list_cell[cellid..] (cellid 0-based), in every iteration order of each cellmap
RECURSIVE mtx_rows(_, _, _)
mtx_rows(table, list_cell, cellid) ==
    IF cellid >= Len(list_cell) THEN {<<>>}
    ELSE LET cellmap == table[list_cell[cellid + 1]]
         IN  {[k \in 1..Len(p) |-> mtx_line(cellid, p[k], cellmap[p[k]])] \o rest :
                 p \in Perms(DOMAIN cellmap), rest \in mtx_rows(table, list_cell, cellid + 1)}

\* store_counttable: the files it may write (the header line of matrix.mtx is
\* not among the data rows)
store_counttable(table, features) ==
    {[mtx |-> m, barcodes |-> list_cell, features |-> features] :
        <<list_cell, m>> \in UNION {{<<lc, mm>> : mm \in mtx_rows(table, lc, 0)} :
                                      lc \in Perms(DOMAIN table)}}

(***************************************************************************)
(* The inputs of a count run.                                              *)
(***************************************************************************)
BamNames == {Some(<<"A", "_", "x">>), Some(<<"B", "_", "x">>), Some(<<"_", "x">>),
             Some(<<"A", "_", "B", "_", "x">>), Some(<<"A", "B">>), None}

BamRefIds(n) == {None, Invalid} \cup {Some(i) : i \in 0..(n - 1)}

BamRecords(n) == {[name |-> nm, refid |-> r] : nm \in BamNames, r \in BamRefIds(n)}

InitCount ==
    /\ pc = "counting"
    /\ atrandi_barcodes = None
    /\ header_refs \in 0..MaxRefs
    /\ records_seen = <<>>
    /\ counts = <<>>
    /\ record = None
    /\ files = None
    /\ IdleCorr /\ IdleExt /\ IdleDemux

\* one iteration of the loop over reader.records() that panics: the record
\* has no name, its name has no underscore, or its reference id is invalid
CountFatal ==
    /\ pc = "counting"
    /\ Len(records_seen) < MaxRecords
    /\ \E rec \in BamRecords(header_refs) :
          /\ count_record(counts, rec, header_refs) = Panic
          /\ record' = rec
    /\ pc' = "fatal"
    /\ UNCHANGED <<atrandi_barcodes, corrVars, extVars, demuxVars, header_refs,
                   records_seen, counts, files>>

\* one iteration of the loop over reader.records() that counts its record
CountRecord ==
    /\ pc = "counting"
    /\ Len(records_seen) < MaxRecords
    /\ \E rec \in BamRecords(header_refs) :
          /\ count_record(counts, rec, header_refs) # Panic
          /\ counts' = count_record(counts, rec, header_refs).val
          /\ records_seen' = Append(records_seen, rec)
          /\ record' = rec
    /\ UNCHANGED <<pc, atrandi_barcodes, corrVars, extVars, demuxVars, header_refs, files>>

\* the records are exhausted: store_counttable writes the three files
StoreTable ==
    /\ pc = "counting"
    /\ files' \in {Some(f) : f \in store_counttable(counts, name_of_features(header_refs))}
    /\ pc' = "stored"
    /\ UNCHANGED <<atrandi_barcodes, corrVars, extVars, demuxVars, header_refs,
                   records_seen, counts, record>>

NextCount == CountFatal \/ CountRecord \/ StoreTable

SpecCount == InitCount /\ [][NextCount]_vars

----
\* b is the text of name before its first underscore
IsPrefixOf(b, name) ==
    \E i \in 1..Len(name) :
        /\ name[i] = "_"
        /\ \A j \in 1..(i - 1) : name[j] # "_"
        /\ b = [j \in 1..(i - 1) |-> name[j]]

\* the feature column of a record: its reference index, else the sentinel index
ColumnOf(rec) == IF rec.refid = None THEN header_refs ELSE rec.refid.val

\* the entries (b, f) the matrix stores
StoredEntries == UNION {{<<b, f>> : f \in DOMAIN counts[b]} : b \in DOMAIN counts}

\* C9: the matrix holds an entry (b, f) iff some counted record has barcode
\* prefix b and feature column f (its reference index, or the sentinel index =
\* number of header references = last position of the feature table, when it is
\* unaligned), and every stored value is 1.
C9_EntriesAreSeenPairs ==
    /\ StoredEntries = {<<b, ColumnOf(records_seen[k])>> :
                           <<b, k>> \in {q \in (DOMAIN counts) \X (1..Len(records_seen)) :
                                            IsPrefixOf(q[1], records_seen[q[2]].name.val)}}
    /\ \A k \in 1..Len(records_seen) :
          \E b \in DOMAIN counts : IsPrefixOf(b, records_seen[k].name.val)
    /\ \A e \in StoredEntries : counts[e[1]][e[2]] = 1
    /\ Len(name_of_features(header_refs)) = header_refs + 1
    /\ name_of_features(header_refs)[header_refs + 1] = <<"*">>

\* two records of barcode A on the sentinel column and one of barcode B on
\* reference 0: two entries, each 1
C9_Witness ==
    /\ header_refs = 1
    /\ records_seen = <<[name |-> Some(<<"A", "_", "x">>), refid |-> None],
                        [name |-> Some(<<"A", "_", "B", "_", "x">>), refid |-> None],
                        [name |-> Some(<<"B", "_", "x">>), refid |-> Some(0)]>>
    /\ counts = (<<"A">> :> (1 :> 1)) @@ (<<"B">> :> (0 :> 1))

\* C10: the files written hold one barcodes.tsv line per distinct barcode, the
\* feature table in order in features.tsv, and one matrix.mtx data row per
\* stored entry; each data row (r, c, v) has 1 <= r <= N, 1 <= c <= M, and
\* stands for the entry (line r of barcodes.tsv, c - 1) with value v, so that
\* the rows read back are exactly the matrix.
C10_FilesReconstructMatrix ==
    pc = "stored" =>
        LET f == files.val
            N == Cardinality(DOMAIN counts)
            M == Len(name_of_features(header_refs))
        IN  /\ Len(f.barcodes) = N
            /\ Range(f.barcodes) = DOMAIN counts
            /\ f.features = name_of_features(header_refs)
            /\ Len(f.features) = M
            /\ Len(f.mtx) = Cardinality(StoredEntries)
            /\ \A i \in 1..Len(f.mtx) :
                  /\ 1 <= f.mtx[i][1] /\ f.mtx[i][1] <= N
                  /\ 1 <= f.mtx[i][2] /\ f.mtx[i][2] <= M
                  /\ <<f.barcodes[f.mtx[i][1]], f.mtx[i][2] - 1>> \in StoredEntries
                  /\ f.mtx[i][3] = counts[f.barcodes[f.mtx[i][1]]][f.mtx[i][2] - 1]
            /\ {<<f.barcodes[f.mtx[i][1]], f.mtx[i][2] - 1>> : i \in 1..Len(f.mtx)}
                   = StoredEntries

\* a matrix of two barcodes and two entries was written, one entry on the
\* sentinel column
C10_Witness ==
    /\ pc = "stored"
    /\ header_refs = 1
    /\ counts = (<<"A">> :> (1 :> 1)) @@ (<<"B">> :> (0 :> 1))
    /\ files.val.barcodes = <<<<"B">>, <<"A">>>>
    /\ files.val.mtx = <<<<1, 1, 1>>, <<2, 2, 1>>>>
    /\ files.val.features = <<<<"chr", 1>>, <<"*">>>>

\* name holds no underscore
NoUnderscore(name) == \A i \in 1..Len(name) : name[i] # "_"

\* a step that runs the loop body on a record that has a name
C11_BodyStep == pc' # "stored" /\ record'.name # None

\* C11: the loop body run on a record whose name holds no underscore ends the
\* run fatally at that record, with the matrix as it was (no row key added,
\* the empty barcode included) and no file written; run on a record whose name
\* holds an underscore it either ends the run fatally (invalid reference id,
\* matrix untouched) or adds exactly the text before the first underscore as
\* row key; after a fatal end nothing happens any more, so no file is ever
\* written.
C11_NoUnderscoreIsFatal ==
    /\ [][C11_BodyStep =>
             IF NoUnderscore(record'.name.val)
             THEN /\ pc' = "fatal"
                  /\ counts' = counts /\ records_seen' = records_seen
                  /\ files' = None
             ELSE \/ pc' = "fatal" /\ record'.refid = Invalid /\ counts' = counts
                  \/ /\ pc' = "counting"
                     /\ \E b \in DOMAIN counts' :
                           /\ IsPrefixOf(b, record'.name.val)
                           /\ DOMAIN counts' = DOMAIN counts \cup {b}]_vars
    /\ [][pc = "counting"]_vars
    /\ [](pc = "fatal" => files = None)

\* two records were counted, then a record named "AB" ended the run: the
\* matrix holds the two barcodes only and no file exists
C11_Witness ==
    /\ pc = "fatal"
    /\ record = [name |-> Some(<<"A", "B">>), refid |-> None]
    /\ DOMAIN counts = {<<"A">>, <<>>}
    /\ Len(records_seen) = 2
    /\ files = None

\* C12 (as claimed): whatever table was loaded (a round without entries and
\* entries of differing lengths included) and whatever the length of a read
\* of bases, get_correct_bc_from_read returns a 4-tuple of barcodes or the
\* failure value: it never panics.
C12_NeverFatal ==
    (pc = "extracted" /\ BasesOnly(bc_read)) => bc # Panic

\* C13 (as claimed): the run is finalized by a step taken in PROCESSING with
\* the stream that drives the loop exhausted, a step that takes no record and
\* handles no pair (every record drawn before it went through the loop body),
\* and no step follows finalization, whatever the number of records.
C13_FinalizedOnlyWhenExhausted ==
    /\ [][pc' = "finalized" =>
             /\ pc = "processing"
             /\ f_r1 = <<>>
             /\ UNCHANGED <<f_r1, f_r2, read_count, processed>>]_vars
    /\ [][pc # "finalized"]_vars

====
